---- MODULE Spec2Model ----
(***************************************************************************)
(* Model of the MCMC inference engine of pyglm (src/inference/gibbs.py):   *)
(* the sweep driver gibbs_sample and the Metropolis-Hastings update rules  *)
(* HmcGlmUpdate, CollapsedGibbsNetworkColumnUpdate,                        *)
(* GibbsNetworkColumnUpdate and LatentDistanceNetworkUpdate.               *)
(*                                                                         *)
(* Four specifications share the module:                                   *)
(*   Spec         the sweep driver gibbs_sample; the parameter state is an *)
(*                object on a heap, mutated in place by the rules, and the *)
(*                trajectory is a list of object references;               *)
(*   SpecRules    one call of one update rule on a concrete parameter      *)
(*                state (adjacency A, weights W with their storage shape,  *)
(*                the GLM records and the latent coordinates L);           *)
(*   SpecPair     two calls of one rule instance;                          *)
(*   SpecHmcPair  two calls of one instance of an HMC-based rule.          *)
(***************************************************************************)
EXTENDS Integers, Sequences, FiniteSets, TLC

\* Population size (population.model['N']) and number of sweeps (N_samples).
N == 2
N_samples == 2

Units == 0 .. (N - 1)

VARIABLES
    \* ---- gibbs_sample ----
    pc,               \* position of gibbs_sample
    isLatent,         \* isinstance(population.network.graph, LatentDistanceGraphModel)
    x0,               \* the argument x0: "given" or "None"
    init_from_mle,    \* the argument init_from_mle
    serial_updates,   \* list of serial rules
    parallel_updates, \* list of parallel rules
    preprocessed,     \* rule name -> number of preprocess(population) calls
    smpl,             \* number of completed sweeps
    ri,               \* index of the current parallel rule (1-based)
    n,                \* unit of the next parallel update call
    si,               \* index of the next serial rule (1-based)
    heap,             \* object id -> parameter state
    x,                \* reference held by the local variable x
    x_smpls,          \* the trajectory: a list of references
    clock,            \* number of update calls made so far (source of fresh values)
    \* history of gibbs_sample, read by the properties only
    calls,            \* update calls issued in the current sweep, in order
    written,          \* the writes of the current sweep: pairs <<slot, value>>
    writtenAtCall,    \* value of "written" when the latest update call started
    lastInput,        \* state the latest update call operated on
    endOfSweep        \* live state at the end of each completed sweep

orchVars == <<pc, isLatent, x0, init_from_mle, serial_updates, parallel_updates, preprocessed, smpl,
              ri, n, si, heap, x, x_smpls, clock, calls, written, writtenAtCall,
              lastInput, endOfSweep>>

VARIABLES
    \* ---- the update rules ----
    A,                  \* x['net']['graph']['A']: A[i][k], an N x N array
    W,                  \* x['net']['weights']['W']: [shape, data], data row-major
    glms,               \* x['glms'][k]: the differentiable GLM parameters of unit k
    L,                  \* x['net']['graph']['L']: [present, val, shape]
    step_sz,            \* rule -> self.step_sz
    avg_accept_rate,    \* rule -> self.avg_accept_rate
    propose_from_prior, \* CollapsedGibbsNetworkColumnUpdate.propose_from_prior
    scipy_legacy,       \* the build has a scipy.misc.logsumexp without the special
                        \* case for a non-finite maximum (scipy <= 0.14)
    bound,              \* the prior pairs bound by preprocess: self.mu_w, self.sigma_w, ...
    rpc,                \* position inside the running update call
    call,               \* the running (or last) call: [rule, unit]
    callsLeft,          \* update calls the caller will still make
    visited,            \* sources n_pre already handled by the running column update
    loc,                \* locals of the visit in progress
    err,                \* the exception that ended the call, or "none"
    \* history, read by the properties only
    pre,                \* the state as it was when the running call started
    writes,             \* locations assigned by the running (or last) call
    prevCall,           \* the call completed before: [rule, unit, writes]
    lastVisit,          \* what the latest visit of a source drew and decided
    count               \* source -> sampling steps applied to it by the running call

ruleVars == <<A, W, glms, L, step_sz, avg_accept_rate, propose_from_prior, scipy_legacy, bound,
              rpc, call, callsLeft, visited, loc, err, pre, writes, prevCall,
              lastVisit, count>>

vars == <<orchVars, ruleVars>>

(***************************************************************************)
(* The parameter state as gibbs_sample sees it: one GLM record per unit,   *)
(* one network column (A[:,k], W[:,k]) per unit, and the latent            *)
(* coordinates.  A content is a natural number: 0 is the initial content   *)
(* and every accepted resampling stores a content never seen before.       *)
(***************************************************************************)
Slots == ({"glms", "net"} \X Units) \cup {<<"L", 0>>}

InitialState == [s \in Slots |-> 0]

HmcGlmUpdate == "HmcGlmUpdate"
CollapsedGibbsNetworkColumnUpdate == "CollapsedGibbsNetworkColumnUpdate"
LatentDistanceNetworkUpdate == "LatentDistanceNetworkUpdate"

\* The slot of the shared state a rule owns when called for unit k.
OwnedSlot(rule, k) ==
    CASE rule = HmcGlmUpdate -> <<"glms", k>>
      [] rule = CollapsedGibbsNetworkColumnUpdate -> <<"net", k>>
      [] rule = LatentDistanceNetworkUpdate -> <<"L", 0>>

\* Outcomes of rule.update on state st: the state it leaves and whether it raised.
\* An HMC rule either rejects (nothing changes) or accepts (fresh content); the
\* collapsed rule rewrites its column, and it may raise: before it has drawn
\* anything (pdb.set_trace() left with "quit" at a non-finite log G, or an
\* exception of log_sum_exp_sample), which leaves the state as it was, or after it
\* has written to its column (a later visit, or the assertion on the drawn weight).
RuleUpdate(rule, st, k, fresh) ==
    LET slot == OwnedSlot(rule, k)
        acc  == [st EXCEPT ![slot] = fresh]
    IN  CASE rule = HmcGlmUpdate ->
                {[state |-> st, raised |-> FALSE], [state |-> acc, raised |-> FALSE]}
          [] rule = CollapsedGibbsNetworkColumnUpdate ->
                {[state |-> acc, raised |-> FALSE], [state |-> acc, raised |-> TRUE],
                 [state |-> st, raised |-> TRUE]}
          [] rule = LatentDistanceNetworkUpdate ->
                {[state |-> st, raised |-> FALSE], [state |-> acc, raised |-> FALSE]}

\* A set-up that appends the network sampler before the GLM sampler.
initialize_updates_parallel_swapped == <<CollapsedGibbsNetworkColumnUpdate, HmcGlmUpdate>>

\* initialize_updates: the two groups of rules, each rule preprocessed once.
initialize_updates_parallel == <<HmcGlmUpdate, CollapsedGibbsNetworkColumnUpdate>>
initialize_updates_serial(latent) ==
    IF latent THEN <<LatentDistanceNetworkUpdate>> ELSE <<>>

\* A driver that hands every update the copy made at the end of the previous sweep.
UpdateInputSnapshot == heap[x_smpls[Len(x_smpls)]]

\* The state object an update call of gibbs_sample is handed: the live object x.
UpdateInput == heap[x]

\* A driver that appends the reference x itself instead of a copy.
AppendSampleAlias(h, traj, ref) ==
    [heap |-> h, x_smpls |-> Append(traj, ref)]

\* copy.deepcopy(x) appended to x_smpls: a new object with the same content.
AppendSample(h, traj, ref) ==
    [heap |-> Append(h, h[ref]), x_smpls |-> Append(traj, Len(h) + 1)]

\* The driver before its first statement: x = x0, nothing recorded.
InitSampler ==
    /\ pc = "start"
    /\ isLatent \in BOOLEAN
    /\ x0 \in {"given", "None"}
    /\ init_from_mle \in BOOLEAN
    /\ serial_updates = <<>>
    /\ parallel_updates = <<>>
    /\ preprocessed = [r \in {HmcGlmUpdate, CollapsedGibbsNetworkColumnUpdate,
                              LatentDistanceNetworkUpdate} |-> 0]
    /\ smpl = 0
    /\ ri = 1
    /\ n = 0
    /\ si = 1
    /\ heap = <<InitialState>>
    /\ x = 1
    /\ x_smpls = <<>>
    /\ clock = 0
    /\ calls = <<>>
    /\ written = {}
    /\ writtenAtCall = {}
    /\ lastInput = InitialState
    /\ endOfSweep = <<>>

histUnchanged == UNCHANGED <<calls, written, writtenAtCall, lastInput, endOfSweep>>

\* gibbs_sample, lines 889-907, when x0 is None: x0 = population.sample(), and
\* with init_from_mle the import of convert_model from models.model_factory, which
\* does not define it, raises ImportError.  The prior draw is the initial content.
DrawInitialState ==
    /\ pc = "start"
    /\ x0 = "None"
    /\ UNCHANGED ruleVars
    /\ pc' = IF init_from_mle THEN "raised" ELSE "sampled"
    /\ UNCHANGED <<isLatent, x0, init_from_mle, serial_updates, parallel_updates,
                   preprocessed, smpl, ri, n, si, heap, x, x_smpls, clock>>
    /\ histUnchanged

\* gibbs_sample up to the sweep loop: the rules are created and x_smpls = [x0].
InitializeUpdates ==
    /\ \/ pc = "start" /\ x0 = "given"
       \/ pc = "sampled"
    /\ UNCHANGED ruleVars
    /\ parallel_updates' = initialize_updates_parallel
    /\ serial_updates' = initialize_updates_serial(isLatent)
    /\ preprocessed' = [r \in DOMAIN preprocessed |->
            IF \/ r \in {HmcGlmUpdate, CollapsedGibbsNetworkColumnUpdate}
               \/ (r = LatentDistanceNetworkUpdate /\ isLatent)
            THEN preprocessed[r] + 1 ELSE preprocessed[r]]
    /\ x_smpls' = <<x>>
    /\ pc' = "loop"
    /\ UNCHANGED <<isLatent, x0, init_from_mle, smpl, ri, n, si, heap, x, clock>>
    /\ histUnchanged

\* for smpl in np.arange(N_samples): the head of one sweep.
SweepBegin ==
    /\ pc = "loop"
    /\ UNCHANGED ruleVars
    /\ smpl < N_samples
    /\ pc' = "parallel"
    /\ ri' = 1
    /\ n' = 0
    /\ si' = 1
    /\ calls' = <<>>
    /\ written' = {}
    /\ UNCHANGED <<isLatent, x0, init_from_mle, serial_updates, parallel_updates, preprocessed, smpl,
                   heap, x, x_smpls, clock, writtenAtCall, lastInput, endOfSweep>>

\* The bookkeeping shared by the two kinds of update call.
CallUpdate(rule, k, unitArg, nextPc) ==
    LET slot == OwnedSlot(rule, k)
    IN  \E out \in RuleUpdate(rule, UpdateInput, k, clock + 1) :
            /\ heap' = [heap EXCEPT ![x] = out.state]
            /\ clock' = clock + 1
            /\ calls' = Append(calls, <<rule, unitArg>>)
            /\ lastInput' = UpdateInput
            /\ writtenAtCall' = written
            /\ written' = IF out.state[slot] # UpdateInput[slot]
                          THEN {w \in written : w[1] # slot}
                                   \cup {<<slot, out.state[slot]>>}
                          ELSE written
            /\ pc' = IF out.raised THEN "raised" ELSE nextPc

\* A driver whose loops are nested the other way round: for each unit, every rule.
ParallelUpdateUnitMajor ==
    /\ pc = "parallel"
    /\ UNCHANGED ruleVars
    /\ n <= N - 1
    /\ LET lastRule == (ri = Len(parallel_updates))
           last == (n = N - 1)
       IN  /\ CallUpdate(parallel_updates[ri], n, n,
                         IF last /\ lastRule THEN "serial" ELSE "parallel")
           /\ ri' = IF lastRule THEN (IF last THEN ri + 1 ELSE 1) ELSE ri + 1
           /\ n' = IF lastRule /\ ~last THEN n + 1 ELSE IF lastRule THEN 0 ELSE n
    /\ UNCHANGED <<isLatent, x0, init_from_mle, serial_updates, parallel_updates, preprocessed, smpl,
                   si, x, x_smpls, endOfSweep>>

\* parallel_update.update(x, n) inside the two nested loops.
ParallelUpdate ==
    /\ pc = "parallel"
    /\ UNCHANGED ruleVars
    /\ ri <= Len(parallel_updates)
    /\ LET last == (n = N - 1)
           lastRule == (ri = Len(parallel_updates))
       IN  /\ CallUpdate(parallel_updates[ri], n, n,
                         IF last /\ lastRule THEN "serial" ELSE "parallel")
           /\ n' = IF last THEN 0 ELSE n + 1
           /\ ri' = IF last THEN ri + 1 ELSE ri
    /\ UNCHANGED <<isLatent, x0, init_from_mle, serial_updates, parallel_updates, preprocessed, smpl,
                   si, x, x_smpls, endOfSweep>>

\* serial_update.update(x)
SerialUpdate ==
    /\ pc = "serial"
    /\ UNCHANGED ruleVars
    /\ si <= Len(serial_updates)
    /\ CallUpdate(serial_updates[si], 0, -1, "serial")
    /\ si' = si + 1
    /\ UNCHANGED <<isLatent, x0, init_from_mle, serial_updates, parallel_updates, preprocessed, smpl,
                   ri, n, x, x_smpls, endOfSweep>>

\* x_smpls.append(copy.deepcopy(x)) at the end of the sweep.
EndSweep ==
    /\ pc = "serial"
    /\ UNCHANGED ruleVars
    /\ si > Len(serial_updates)
    /\ LET r == AppendSample(heap, x_smpls, x)
       IN  /\ heap' = r.heap
           /\ x_smpls' = r.x_smpls
    /\ endOfSweep' = Append(endOfSweep, heap[x])
    /\ smpl' = smpl + 1
    /\ pc' = "loop"
    /\ UNCHANGED <<isLatent, x0, init_from_mle, serial_updates, parallel_updates, preprocessed,
                   ri, n, si, x, clock, calls, written, writtenAtCall, lastInput>>

\* return x_smpls
Return ==
    /\ pc = "loop"
    /\ UNCHANGED ruleVars
    /\ smpl = N_samples
    /\ pc' = "done"
    /\ UNCHANGED <<isLatent, x0, init_from_mle, serial_updates, parallel_updates, preprocessed, smpl,
                   ri, n, si, heap, x, x_smpls, clock>>
    /\ histUnchanged

Next ==
    \/ DrawInitialState
    \/ InitializeUpdates
    \/ SweepBegin
    \/ ParallelUpdate
    \/ SerialUpdate
    \/ EndSweep
    \/ Return


(***************************************************************************)
(* The update rules on a concrete parameter state.                         *)
(*                                                                         *)
(* Real numbers.  A weight, a GLM parameter or a coordinate is a pair      *)
(* <<"fin", v>> (v an integer, in thousandths) or <<"nan", 0>>.  A         *)
(* log-likelihood or log-probability is known by its class only:           *)
(* "fin", "nan", "pinf" (+infinity) or "ninf" (-infinity); the model       *)
(* evaluator (glm.ll.eval, seval) may return any class.                    *)
(***************************************************************************)
F(v) == <<"fin", v>>
NaN == <<"nan", 0>>
IsFinite(f) == f[1] = "fin"

Classes == {"fin", "nan", "pinf", "ninf"}
isfinite(c) == c = "fin"
isnan(c) == c = "nan"

\* IEEE sum and difference of two values known by class.
AddC(a, b) ==
    CASE a = "nan" \/ b = "nan" -> "nan"
      [] a = "pinf" -> IF b = "ninf" THEN "nan" ELSE "pinf"
      [] a = "ninf" -> IF b = "pinf" THEN "nan" ELSE "ninf"
      [] OTHER -> b

NegC(a) == CASE a = "pinf" -> "ninf" [] a = "ninf" -> "pinf" [] OTHER -> a

SubC(a, b) == AddC(a, NegC(b))

\* scipy.misc.logsumexp of a non-empty array, by class.  It computes
\* log(sum(exp(a - a.max()))) + a.max(); from scipy 0.15 on a non-finite maximum is
\* replaced by 0 in the subtraction, so that +infinity dominates and the result is
\* -infinity exactly when every entry is.  Before, a maximum of +infinity or of
\* -infinity makes a - a.max() hold a NaN, and the result is NaN.  A NaN entry
\* gives NaN in both.
logsumexp(a) ==
    IF scipy_legacy
    THEN IF /\ \A k \in 1 .. Len(a) : a[k] \in {"fin", "ninf"}
            /\ \E k \in 1 .. Len(a) : a[k] = "fin"
         THEN "fin" ELSE "nan"
    ELSE CASE \E k \in 1 .. Len(a) : a[k] = "nan" -> "nan"
           [] \E k \in 1 .. Len(a) : a[k] = "pinf" -> "pinf"
           [] \E k \in 1 .. Len(a) : a[k] = "fin" -> "fin"
           [] OTHER -> "ninf"

\* The Gauss-Hermite rule of CollapsedGibbsNetworkColumnUpdate.__init__.
DEG_GAUSS_HERMITE == 20

\* sqrt(2) * GAUSS_HERMITE_ABSCISSAE, in thousandths (hermgauss(20)).
SQRT2_GAUSS_HERMITE_ABSCISSAE ==
    <<-7619, -6511, -5579, -4735, -3944, -3189, -2459, -1745, -1043, -347,
      347, 1043, 1745, 2459, 3189, 3944, 4735, 5579, 6511, 7619>>

\* The weight priors bound by preprocess: network.weights.prior and
\* network.weights.refractory_prior (mu in thousandths, sigma a multiple of 1.0).
weights_prior == [mu |-> 0, sigma |-> 1]
weights_refractory_prior == [mu |-> -2000, sigma |-> 2]

\* preprocess, lines 185-194: the standard pair, and the refractory pair when the
\* weight model has one; otherwise the refractory attributes repeat the standard pair.
preprocess(has_refractory_prior) ==
    [mu_w |-> weights_prior.mu,
     sigma_w |-> weights_prior.sigma,
     mu_w_ref |-> IF has_refractory_prior THEN weights_refractory_prior.mu
                  ELSE weights_prior.mu,
     sigma_w_ref |-> IF has_refractory_prior THEN weights_refractory_prior.sigma
                     ELSE weights_prior.sigma]

mu_w == bound.mu_w
sigma_w == bound.sigma_w
mu_w_ref == bound.mu_w_ref
sigma_w_ref == bound.sigma_w_ref

\* "Set sigma_w and mu_w": the pair used for the entry (n_pre, n_post).
PriorPair(n_pre, n_post) ==
    IF n_pre = n_post
    THEN [mu |-> mu_w_ref, sigma |-> sigma_w_ref]
    ELSE [mu |-> mu_w, sigma |-> sigma_w]

\* _slice_sample_W, "Set sigma_w and mu_w" (lines 414-420): the pair its lp_fn and
\* its step use for the entry (n_pre, n_post).  No rule calls the routine.
_slice_sample_W_pair(n_pre, n_post) ==
    IF n_pre = n_post
    THEN [mu |-> mu_w_ref, sigma |-> sigma_w_ref]
    ELSE [mu |-> mu_w, sigma |-> sigma_w]

\* W_nns = np.sqrt(2) * sigma_w * GAUSS_HERMITE_ABSCISSAE + mu_w
W_nns(pr) ==
    [k \in 1 .. DEG_GAUSS_HERMITE |-> pr.sigma * SQRT2_GAUSS_HERMITE_ABSCISSAE[k] + pr.mu]

\* W_centers: the lower tail point, the midpoints of adjacent nodes, the upper tail point.
W_centers(pr) ==
    LET w == W_nns(pr)
    IN  [k \in 1 .. (DEG_GAUSS_HERMITE + 1) |->
            IF k = 1 THEN pr.mu - 6000 * pr.sigma
            ELSE IF k = DEG_GAUSS_HERMITE + 1 THEN pr.mu + 6000 * pr.sigma
            ELSE (w[k] + w[k - 1]) \div 2]

(***************************************************************************)
(* External collaborators of the rules (log_sum_exp.py, hmc.py and numpy). *)
(***************************************************************************)
\* log_sum_exp_sample(lnp) for two log-weights: the indices it can return.  With
\* one finite weight and the other finite or -infinity it samples an index of
\* positive probability; otherwise the normalised weights are not numbers and the
\* call may return either index or raise.
log_sum_exp_sample(lw) ==
    CASE lw[1] = "fin" /\ lw[2] = "fin" -> {0, 1}
      [] lw[1] = "fin" /\ lw[2] = "ninf" -> {0}
      [] lw[1] = "ninf" /\ lw[2] = "fin" -> {1}
      [] OTHER -> {0, 1}

log_sum_exp_sample_may_raise(lw) ==
    ~ (\/ (lw[1] = "fin" /\ lw[2] \in {"fin", "ninf"})
       \/ (lw[1] = "ninf" /\ lw[2] = "fin"))

\* np.interp(x, xp, fp) for a finite x that falls between xp[j] and xp[j+1]: the
\* value is slope * (x - xp[j]) + fp[j] with slope = (fp[j+1] - fp[j]) /
\* (xp[j+1] - xp[j]), in floating point.  From xp[j] = -infinity the slope is 0 and
\* x - xp[j] is +infinity, so the product is not a number; towards xp[j+1] =
\* +infinity the slope is 0 and the value is fp[j].  Here x is taken halfway when
\* both ends are finite.
interp(xp, fp, j) ==
    CASE xp[j] = "nan" \/ xp[j + 1] = "nan" -> NaN
      [] xp[j] = "fin" /\ xp[j + 1] = "fin" -> F((fp[j] + fp[j + 1]) \div 2)
      [] xp[j] = "ninf" /\ xp[j + 1] = "fin" -> NaN
      [] xp[j] = "fin" /\ xp[j + 1] = "pinf" -> F(fp[j])
      [] OTHER -> NaN

\* The intervals of xp a finite x can fall into (any, when xp holds a NaN and the
\* search of np.interp is not defined), cut down to the first one and to the
\* intervals named by INTERP_PICKS.
INTERP_PICKS == {1, DEG_GAUSS_HERMITE - 1}

InterpBins(xp) ==
    LET all == 1 .. (Len(xp) - 1)
        R == IF \E k \in 1 .. Len(xp) : xp[k] = "nan" THEN all
             ELSE {j \in all : xp[j] \in {"ninf", "fin"} /\ xp[j + 1] \in {"fin", "pinf"}}
    IN  {j \in R : j \in INTERP_PICKS \/ \A m \in R : j <= m}

\* np.random.randn(): the standard normal draws considered, in thousandths.
RANDN == {-1000, 1000}

\* hmc(nll, grad_nll, step_sz, n_steps, q0, ...): the positions it can return.  The
\* momentum is drawn for every component; a component whose gradient is zero moves
\* with its momentum alone, the others are also pushed by the gradient.  A proposal
\* is accepted only from a finite position; rejection returns q0.
HMC_MOMENTA == {-1000, 1000}
HMC_PUSHES == {-500, 500}

hmc_proposals(q0, live) ==
    {[i \in DOMAIN q0 |->
        IF IsFinite(q0[i])
        THEN F(q0[i][2] + p + (IF i \in live THEN g ELSE 0))
        ELSE q0[i]] : p \in HMC_MOMENTA, g \in HMC_PUSHES}

hmc(q0, live) ==
    {[q |-> q0, accepted |-> FALSE]} \cup
    (IF \A i \in DOMAIN q0 : IsFinite(q0[i])
     THEN {[q |-> q1, accepted |-> TRUE] : q1 \in hmc_proposals(q0, live)}
     ELSE {})

\* The adapted step size and acceptance estimate hmc returns (thousandths): an
\* exponential moving average of the acceptance, and a multiplicative step change
\* towards the target rate.


hmc_avg_accept_rate(avg, accepted) == (9 * avg + (IF accepted THEN 1000 ELSE 0)) \div 10

hmc_step_sz(step, avg, accepted) ==
    IF hmc_avg_accept_rate(avg, accepted) > 900
    THEN (step * 11) \div 10 ELSE (step * 9) \div 10

(***************************************************************************)
(* The parameter state x of the rules.                                     *)
(***************************************************************************)
GibbsNetworkColumnUpdate == "GibbsNetworkColumnUpdate"

RuleNames == {HmcGlmUpdate, CollapsedGibbsNetworkColumnUpdate,
              GibbsNetworkColumnUpdate, LatentDistanceNetworkUpdate}

\* Index of entry (i, k) in the row-major data of an N x N array.
Flat(i, k) == i * N + k + 1

MatrixShape == <<N, N>>
FlatShape == <<N * N>>

\* W[i, k] of W = x['net']['weights']['W'].reshape(A.shape)
Wat(w, i, k) == w.data[Flat(i, k)]

NoLoc == [n_pre |-> -1, p_A |-> "mid", log_L |-> <<>>, log_G |-> "fin",
          log_L0 |-> "fin", log_pr_noA |-> "fin", log_pr_A |-> "fin"]

\* No source visited yet by the running call.
NoLast == [routine |-> "none", n_pre |-> -1, A_init |-> 0, W_init |-> F(0),
           prop_A |-> 0, quadrature |-> FALSE, log_G |-> "fin",
           log_lkhd_noA |-> "fin", log_pr_accept |-> "fin", accepted |-> FALSE,
           lnp |-> <<>>, raised_at |-> 0]
NoCall == [rule |-> "none", unit |-> -1]

Snapshot == [A |-> A, W |-> W, glms |-> glms, L |-> L]

\* Locations an update can assign: array entries, container fields of x and
\* fields of the rule instance.
LocA(i, k) == <<"A", i, k>>
LocW(i, k) == <<"W", i, k>>
LocGlm(k) == <<"glms", k, 0>>
LocL == <<"L", 0, 0>>
LocFieldA == <<"x.net.graph[A]", 0, 0>>
LocFieldW == <<"x.net.weights[W]", 0, 0>>
LocStepSz == <<"self.step_sz", 0, 0>>
LocAcceptRate == <<"self.avg_accept_rate", 0, 0>>

(***************************************************************************)
(* CollapsedGibbsNetworkColumnUpdate                                       *)
(***************************************************************************)
\* The log-likelihoods glm.ll.eval may return at the DEG_GAUSS_HERMITE nodes: all
\* finite, all of one non-finite class, or one non-finite value at a picked node.
NODE_PICKS == {1, DEG_GAUSS_HERMITE}

LogLVectors ==
    {[k \in 1 .. DEG_GAUSS_HERMITE |-> c] : c \in {"fin", "nan", "ninf"}} \cup
    {[k \in 1 .. DEG_GAUSS_HERMITE |-> IF k = k0 THEN c ELSE "fin"] :
        k0 \in NODE_PICKS, c \in {"nan", "pinf", "ninf"}}

\* An update that adds to the entry instead of assigning it.
SetAAccumulate(a, n_pre, n_post, v) == [a EXCEPT ![n_pre][n_post] = @ + v]

\* The in-place assignment A[n_pre, n_post] = v
SetA(a, n_pre, n_post, v) == [a EXCEPT ![n_pre][n_post] = v]

\* An assignment through the transposed index.
SetWTransposed(w, n_pre, n_post, v) == [w EXCEPT !.data[Flat(n_post, n_pre)] = v]

\* W[n_pre, n_post] = v through the view W = x[..]['W'].reshape(A.shape): the
\* stored array keeps its shape and shares the data.
SetW(w, n_pre, n_post, v) == [w EXCEPT !.data[Flat(n_pre, n_post)] = v]

\* W.ravel(): the same data as a one-dimensional array.
ravel(w) == [shape |-> FlatShape, data |-> w.data]

\* A helper that resets A[n_pre, n_post] but leaves the candidate weight in W.
_glm_ll_A_keeps_w(a, w, n_pre, n_post, wv) ==
    LET A_init == a[n_pre][n_post]
        a1 == SetA(a, n_pre, n_post, 1)
        w1 == SetW(w, n_pre, n_post, F(wv))
    IN  [A |-> SetA(a1, n_pre, n_post, A_init), W |-> w1]

\* _glm_ll_A: forces A[n_pre, n_post] = 1 and W[n_pre, n_post] = w, evaluates the
\* likelihood, and resets both entries; the state it leaves.
_glm_ll_A(a, w, n_pre, n_post, wv) ==
    LET A_init == a[n_pre][n_post]
        a1 == SetA(a, n_pre, n_post, 1)
        W_init == Wat(w, n_pre, n_post)
        w1 == SetW(w, n_pre, n_post, F(wv))
    IN  [A |-> SetA(a1, n_pre, n_post, A_init), W |-> SetW(w1, n_pre, n_post, W_init)]

\* _glm_ll_noA: forces A[n_pre, n_post] = 0, evaluates, and resets the entry.
_glm_ll_noA(a, n_pre, n_post) ==
    LET A_init == a[n_pre][n_post]
        a1 == SetA(a, n_pre, n_post, 0)
    IN  SetA(a1, n_pre, n_post, A_init)

\* The loop over the quadrature nodes: _glm_ll_A at every W_nns[i], in turn.
RECURSIVE EvalNodes(_, _, _, _, _, _)
EvalNodes(a, w, n_pre, n_post, nodes, i) ==
    IF i > Len(nodes) THEN [A |-> a, W |-> w]
    ELSE LET r == _glm_ll_A(a, w, n_pre, n_post, nodes[i])
         IN  EvalNodes(r.A, r.W, n_pre, n_post, nodes, i + 1)

\* Exact mode, lines 321-338: weighted_log_L[i] starts as 0.0 (np.zeros), is tested
\* for NaN, is assigned log_L[i] + log(w / sqrt(pi)), and is tested again.
weighted_log_L(log_L) ==
    [i \in 1 .. DEG_GAUSS_HERMITE |->
        LET zero == "fin"
            first == IF isnan(zero) THEN "ninf" ELSE zero
            sum == AddC(log_L[i], "fin")
        IN  IF isnan(sum) THEN "ninf" ELSE sum]

\* Exact mode, lines 372-389: the log CDF over the support points W_centers, built
\* from log_L as returned by the evaluator.
log_F_W(log_L) ==
    LET K == DEG_GAUSS_HERMITE
        log_posterior_W == [k \in 1 .. K |-> AddC("fin", log_L[k])]
        log_posterior_avg == [i \in 1 .. (K - 1) |->
            SubC(logsumexp(<<log_posterior_W[i], log_posterior_W[i + 1]>>), "fin")]
        mass0 == [i \in 1 .. (K - 1) |-> AddC(log_posterior_avg[i], "fin")]
        norm == logsumexp(mass0)
        log_posterior_mass == [i \in 1 .. (K - 1) |-> SubC(mass0[i], norm)]
    IN  [k \in 1 .. (K + 1) |->
            IF k = 1 THEN "ninf"
            ELSE IF k = K + 1 THEN "fin"
            ELSE logsumexp(SubSeq(log_posterior_mass, 1, k - 1))]

\* Propose-from-prior mode, lines 475-486: log_L[i] = log(w / sqrt(pi)) + ll, NaN
\* replaced by -infinity.
prior_log_L(ll) ==
    [i \in 1 .. DEG_GAUSS_HERMITE |->
        LET sum == AddC("fin", ll[i])
        IN  IF isnan(sum) THEN "ninf" ELSE sum]

\* Propose-from-prior mode, lines 506-508: the log CDF over the nodes W_nns.
prior_log_F_W(log_L) ==
    LET K == DEG_GAUSS_HERMITE
        log_G == logsumexp(log_L)
        log_p_W == [k \in 1 .. K |-> SubC(log_L[k], log_G)]
    IN  [k \in 1 .. K |->
            IF k = K THEN "fin" ELSE logsumexp(SubSeq(log_p_W, 1, k))]

\* np.interp(np.log(np.random.rand()), log_F_W, W_centers): the values it can give.
SampleW_exact(log_L, pr) ==
    LET xp == log_F_W(log_L)
    IN  {interp(xp, W_centers(pr), b) : b \in InterpBins(xp)}

\* np.interp(np.log(np.random.rand()), log_F_W, W_nns): below xp[1] the result is
\* fp[1]; otherwise it is interpolated.
SampleW_prior(log_L, pr) ==
    LET xp == prior_log_F_W(log_L)
        fp == W_nns(pr)
    IN  (IF xp[1] \in {"fin", "pinf"} THEN {F(fp[1])} ELSE {})
        \cup {interp(xp, fp, b) : b \in InterpBins(xp)}

\* Bookkeeping of a call that starts: the call before it is remembered.
StartCall(j) ==
    /\ callsLeft > 0
    /\ call.unit # j
    /\ call' = [call EXCEPT !.unit = j]
    /\ prevCall' = IF call.unit \in Units
                   THEN [unit |-> call.unit, writes |-> writes]
                   ELSE prevCall
    /\ pre' = Snapshot
    /\ callsLeft' = callsLeft - 1

\* p_A[n_pre, n_post], the prior probability of the edge that _precompute_vars
\* hands the visit, by class: 0.0, strictly between 0 and 1, 1.0.
P_A == {"zero", "mid", "one"}

\* prior_lp_A = np.log(p_A[n_pre, n_post])
prior_lp_A(pA) == IF pA = "zero" THEN "ninf" ELSE "fin"

\* prior_lp_noA = np.log(1.0 - p_A[n_pre, n_post])
prior_lp_noA(pA) == IF pA = "one" THEN "ninf" ELSE "fin"

\* prop_A = np.int8(np.log(np.random.rand()) < prior_lp_A): the values it can take.
prop_A_draws(pA) ==
    CASE pA = "zero" -> {0}
      [] pA = "one" -> {1}
      [] OTHER -> {0, 1}

\* The lines of _collapsed_sample_AW where a visit can end before it assigns A:
\* the debugger of the log_G test, and the debugger and raise of the sampler's
\* except clause.
LINE_PDB_LOG_G == 344
LINE_PDB_SAMPLER == 359
LINE_RAISE_SAMPLER == 360

\* A loop that draws every source anew, with repeats.
order_left_with_repeats == Units

\* order = np.arange(N); np.random.shuffle(order): the sources still to come in
\* the shuffled order.
order_left == Units \ visited

\* The argument list of log_sum_exp_sample, with the weights the other way round.
lnp_swapped(log_pr_noA, log_pr_A) == <<log_pr_A, log_pr_noA>>

\* [log_pr_noA, log_pr_A]: the argument of log_sum_exp_sample.
lnp(log_pr_noA, log_pr_A) == <<log_pr_noA, log_pr_A>>

\* update(x, n), lines 551-556: the currents and p_A are computed, the order drawn.
\* The shuffled order is drawn as it is consumed: each iteration takes any source
\* not handled yet.
CollapsedBegin(j) ==
    /\ rpc = "idle"
    /\ call.rule = CollapsedGibbsNetworkColumnUpdate
    /\ StartCall(j)
    /\ rpc' = "collapsed"
    /\ visited' = {}
    /\ writes' = {}
    /\ lastVisit' = NoLast
    /\ count' = [i \in Units |-> 0]
    /\ UNCHANGED <<A, W, glms, L, step_sz, avg_accept_rate, propose_from_prior, scipy_legacy, bound,
                   loc, err>>

\* _collapsed_sample_AW, lines 305-362: quadrature, log G, and the draw of A.
\* pdb.set_trace() is left with "continue" (the visit goes on) or with "quit"
\* (bdb.BdbQuit ends the call); the helpers have reset what they forced.  The
\* state left by the quadrature loop, the one left by _glm_ll_noA and log_G are
\* bound once, by a quantifier over a one-element set.
CollapsedSampleA(n_pre) ==
    /\ rpc = "collapsed"
    /\ ~ propose_from_prior
    /\ n_pre \in order_left
    /\ UNCHANGED count
    /\ \E st \in {EvalNodes(A, W, n_pre, call.unit,
                              W_nns(PriorPair(n_pre, call.unit)), 1)} :
       \E a0 \in {_glm_ll_noA(st.A, n_pre, call.unit)} :
       LET n_post == call.unit
           entry == [NoLast EXCEPT !.routine = "exact", !.n_pre = n_pre,
                                   !.A_init = A[n_pre][call.unit],
                                   !.W_init = Wat(W, n_pre, call.unit)]
       IN  \E log_L \in LogLVectors :
           \E log_G \in {logsumexp(weighted_log_L(log_L))} :
           \E logL0 \in Classes, pA \in P_A :
           LET log_pr_A == AddC(prior_lp_A(pA), log_G)
               noA == AddC(prior_lp_noA(pA), logL0)
               log_pr_noA == IF isnan(noA) THEN "ninf" ELSE noA
               lw == lnp(log_pr_noA, log_pr_A)
               touched == writes \cup {LocA(n_pre, n_post), LocW(n_pre, n_post)}
           IN  \/ \* pdb.set_trace() at a non-finite log_G, left with "quit"
                  /\ ~ isfinite(log_G)
                  /\ A' = st.A /\ W' = st.W
                  /\ err' = "BdbQuit" /\ rpc' = "raised"
                  /\ lastVisit' = [entry EXCEPT !.log_G = log_G,
                                                !.raised_at = LINE_PDB_LOG_G]
                  /\ writes' = touched
                  /\ UNCHANGED loc
               \/ \* log_sum_exp_sample raises: pdb.set_trace(), then raise e
                  /\ log_sum_exp_sample_may_raise(lw)
                  /\ A' = a0 /\ W' = st.W
                  /\ rpc' = "raised"
                  /\ \/ /\ err' = "BdbQuit"
                        /\ lastVisit' = [entry EXCEPT !.log_G = log_G, !.lnp = lw,
                                                      !.raised_at = LINE_PDB_SAMPLER]
                     \/ /\ err' = "Exception"
                        /\ lastVisit' = [entry EXCEPT !.log_G = log_G, !.lnp = lw,
                                                      !.raised_at = LINE_RAISE_SAMPLER]
                  /\ writes' = touched
                  /\ UNCHANGED loc
               \/ \E v \in log_sum_exp_sample(lw) :
                  /\ A' = SetA(a0, n_pre, n_post, v)
                  /\ W' = st.W
                  /\ lastVisit' = entry
                  /\ loc' = [n_pre |-> n_pre, p_A |-> pA, log_L |-> log_L,
                             log_G |-> log_G, log_L0 |-> logL0,
                             log_pr_noA |-> log_pr_noA, log_pr_A |-> log_pr_A]
                  /\ rpc' = "sampleW"
                  /\ writes' = touched \cup {LocFieldA}
                  /\ UNCHANGED err
    /\ UNCHANGED <<glms, L, step_sz, avg_accept_rate, propose_from_prior, scipy_legacy, bound, call,
                   callsLeft, visited, pre, prevCall>>

\* _collapsed_sample_AW, lines 364-408: the draw of W and the write back.  The
\* assertion of line 399 tests what the evaluator returns at the drawn weight,
\* which can be any class whatever the weight is.
CollapsedSampleW ==
    /\ rpc = "sampleW"
    /\ LET n_pre == loc.n_pre
           n_post == call.unit
           pr == PriorPair(n_pre, n_post)
       IN  IF A[n_pre][n_post] = 1
           THEN \E v \in SampleW_exact(loc.log_L, pr) :
                LET w1 == SetW(W, n_pre, n_post, v)
                IN  \E ll \in Classes :
                    IF isfinite(ll)
                    THEN /\ W' = ravel(w1)
                         /\ writes' = writes \cup {LocW(n_pre, n_post), LocFieldW}
                         /\ rpc' = "collapsed"
                         /\ visited' = visited \cup {n_pre}
                         /\ UNCHANGED err
                    ELSE \* the assertion of line 399 fails
                         /\ W' = w1
                         /\ writes' = writes \cup {LocW(n_pre, n_post)}
                         /\ rpc' = "raised"
                         /\ err' = "AssertionError"
                         /\ UNCHANGED visited
           ELSE \E z \in RANDN :
                /\ W' = ravel(SetW(W, n_pre, n_post, F(pr.mu + pr.sigma * z)))
                /\ writes' = writes \cup {LocW(n_pre, n_post), LocFieldW}
                /\ rpc' = "collapsed"
                /\ visited' = visited \cup {n_pre}
                /\ UNCHANGED err
    /\ loc' = NoLoc
    /\ count' = IF rpc' = "collapsed" THEN [count EXCEPT ![loc.n_pre] = @ + 1] ELSE count
    /\ UNCHANGED lastVisit
    /\ UNCHANGED <<A, glms, L, step_sz, avg_accept_rate, propose_from_prior, scipy_legacy, bound, call,
                   callsLeft, pre, prevCall>>

\* A routine that redraws the weight whenever the proposal leaves A as it is.
redraw_always(A_init) == TRUE

\* elif A[n_pre, n_post]: the proposal leaves A as it is and there is an edge.
redraw_unchanged_edge(A_init) == A_init = 1

\* A ratio with the two likelihoods exchanged.
log_pr_accept_reversed(prop_A, log_lkhd_A, log_lkhd_noA) ==
    IF prop_A = 1 THEN SubC(log_lkhd_noA, log_lkhd_A) ELSE SubC(log_lkhd_A, log_lkhd_noA)

\* log_pr_accept = log_lkhd_A - log_lkhd_noA if prop_A else log_lkhd_noA - log_lkhd_A
log_pr_accept(prop_A, log_lkhd_A, log_lkhd_noA) ==
    IF prop_A = 1 THEN SubC(log_lkhd_A, log_lkhd_noA) ELSE SubC(log_lkhd_noA, log_lkhd_A)

\* _collapsed_sample_AW_with_prior once prop_A is drawn (line 466), up to its
\* last statement (lines 468-543): the states it can reach, each with the
\* locations it assigned and with what it drew and decided.  W is written through
\* the reshape view; the stored array is re-bound afterwards, at line 546.
_collapsed_sample_AW_with_prior(a, w, n_pre, n_post, prop_A) ==
    LET pr == PriorPair(n_pre, n_post)
        A_init == a[n_pre][n_post]
        W_init == Wat(w, n_pre, n_post)
        st == EvalNodes(a, w, n_pre, n_post, W_nns(pr), 1)
        quad == {LocA(n_pre, n_post), LocW(n_pre, n_post)}
        entry == [NoLast EXCEPT !.routine = "prior", !.n_pre = n_pre,
                                        !.A_init = A_init, !.W_init = W_init,
                                        !.prop_A = prop_A]
    IN    IF A_init # prop_A
          THEN UNION {
                 LET log_L == prior_log_L(ll)
                     log_G == logsumexp(log_L)
                     drawn == SampleW_prior(log_L, pr)
                     a1 == SetA(_glm_ll_noA(st.A, n_pre, n_post), n_pre, n_post, prop_A)
                 IN  UNION {
                       LET lpa == log_pr_accept(prop_A, log_G, log_lkhd_noA)
                           did == [entry EXCEPT !.quadrature = TRUE,
                                                        !.log_G = log_G,
                                                        !.log_lkhd_noA = log_lkhd_noA,
                                                        !.log_pr_accept = lpa]
                           yes == [did EXCEPT !.accepted = TRUE]
                       IN  (IF lpa # "pinf"
                            THEN {[A |-> st.A, W |-> st.W, writes |-> quad,
                                   did |-> did]}
                            ELSE {}) \cup
                           (IF lpa \in {"fin", "pinf"}
                            THEN IF prop_A = 1
                                 THEN {[A |-> a1, W |-> SetW(st.W, n_pre, n_post, v),
                                        writes |-> quad, did |-> yes] : v \in drawn}
                                 ELSE {[A |-> a1, W |-> st.W, writes |-> quad,
                                        did |-> yes]}
                            ELSE {})
                       : log_lkhd_noA \in Classes}
                 : ll \in LogLVectors}
          ELSE IF redraw_unchanged_edge(A_init)
          THEN UNION {
                 LET log_L == prior_log_L(ll)
                     did == [entry EXCEPT !.quadrature = TRUE,
                                                  !.log_G = logsumexp(log_L)]
                 IN  {[A |-> st.A, W |-> SetW(st.W, n_pre, n_post, v),
                       writes |-> quad, did |-> did] : v \in SampleW_prior(log_L, pr)}
                 : ll \in LogLVectors}
          ELSE {[A |-> a, W |-> w, writes |-> {}, did |-> entry]}

\* One iteration of the loop of update in propose-from-prior mode, up to the last
\* statement of the routine.  The entry p_A[n_pre, n_post] is read by this visit
\* only; prop_A is a value its draw can take for some class of that entry.
CollapsedSampleAWWithPrior(n_pre) ==
    /\ rpc = "collapsed"
    /\ propose_from_prior
    /\ n_pre \in order_left
    /\ \E prop_A \in {0, 1} :
        /\ \E pA \in P_A : prop_A \in prop_A_draws(pA)
        /\ \E r \in _collapsed_sample_AW_with_prior(A, W, n_pre, call.unit, prop_A) :
            /\ A' = r.A
            /\ W' = r.W
            /\ writes' = writes \cup r.writes
            /\ lastVisit' = r.did
    /\ rpc' = "storeW"
    /\ UNCHANGED <<glms, L, step_sz, avg_accept_rate, propose_from_prior, scipy_legacy, bound, call,
                   callsLeft, visited, count, loc, err, pre, prevCall>>

\* _collapsed_sample_AW_with_prior, line 546: x['net']['weights']['W'] = W.ravel(),
\* and the return to the loop of update; the locals of the visit are gone.
CollapsedStoreW ==
    /\ rpc = "storeW"
    /\ W' = ravel(W)
    /\ writes' = writes \cup {LocFieldW}
    /\ rpc' = "collapsed"
    /\ visited' = visited \cup {lastVisit.n_pre}
    /\ count' = [count EXCEPT ![lastVisit.n_pre] = @ + 1]
    /\ lastVisit' = [NoLast EXCEPT !.routine = lastVisit.routine,
                                   !.n_pre = lastVisit.n_pre,
                                   !.A_init = lastVisit.A_init,
                                   !.W_init = lastVisit.W_init]
    /\ UNCHANGED <<A, glms, L, step_sz, avg_accept_rate, propose_from_prior, scipy_legacy, bound, call,
                   callsLeft, loc, err, pre, prevCall>>

\* return x, once the loop has handled every source.
CollapsedReturn ==
    /\ rpc = "collapsed"
    /\ visited = Units
    /\ rpc' = "idle"
    /\ UNCHANGED <<lastVisit, count>>
    /\ UNCHANGED <<A, W, glms, L, step_sz, avg_accept_rate, propose_from_prior, scipy_legacy, bound, call,
                   callsLeft, visited, loc, err, pre, writes, prevCall>>

(***************************************************************************)
(* HmcGlmUpdate                                                            *)
(***************************************************************************)
\* A write back that stores the record in every unit's slot.
WriteBackGlmAll(g, unit, v) == [k \in DOMAIN g |-> v]

\* x['glms'][n] = xn['glm']
WriteBackGlm(g, unit, v) == [g EXCEPT ![unit] = v]

\* A controller that hands hmc the constructor's values on every call.
Adapted_step_sz_restart(rule, r) ==
    [step_sz EXCEPT ![rule] = hmc_step_sz(50, 900, r.accepted)]

\* self.step_sz = new_step_sz; self.avg_accept_rate = new_accept_rate
Adapted_step_sz(rule, r) ==
    [step_sz EXCEPT ![rule] = hmc_step_sz(@, avg_accept_rate[rule], r.accepted)]

Adapted_avg_accept_rate(rule, r) ==
    [avg_accept_rate EXCEPT ![rule] = hmc_avg_accept_rate(@, r.accepted)]

\* update(x, n): the GLM record of unit n is packed, moved by hmc and written back.
HmcGlmUpdate_update(j) ==
    /\ rpc = "idle"
    /\ call.rule = HmcGlmUpdate
    /\ StartCall(j)
    /\ \E r \in hmc(<<glms[j]>>, {1}) :
        /\ glms' = WriteBackGlm(glms, j, r.q[1])
        /\ step_sz' = Adapted_step_sz(HmcGlmUpdate, r)
        /\ avg_accept_rate' = Adapted_avg_accept_rate(HmcGlmUpdate, r)
    /\ writes' = {LocGlm(j), LocStepSz, LocAcceptRate}
    /\ UNCHANGED <<lastVisit, count>>
    /\ UNCHANGED <<A, W, L, propose_from_prior, scipy_legacy, bound, rpc, visited, loc, err>>

(***************************************************************************)
(* GibbsNetworkColumnUpdate                                                *)
(***************************************************************************)
\* g_mask[:, n_post] = 1: the components of the flattened W with a live gradient.
g_mask(n_post) == {Flat(i, n_post) : i \in Units}

ColumnBegin(j) ==
    /\ rpc = "idle"
    /\ call.rule = GibbsNetworkColumnUpdate
    /\ StartCall(j)
    /\ rpc' = "column"
    /\ visited' = {}
    /\ writes' = {}
    /\ lastVisit' = NoLast
    /\ count' = [i \in Units |-> 0]
    /\ UNCHANGED <<A, W, glms, L, step_sz, avg_accept_rate, propose_from_prior, scipy_legacy, bound,
                   loc, err>>

\* _sample_column_of_A: one iteration of the loop over n_pre = 0, 1, ..., N-1.
SampleColumnOfA ==
    /\ rpc = "column"
    /\ visited # Units
    /\ LET n_pre == Cardinality(visited)
           n_post == call.unit
           a0 == SetA(A, n_pre, n_post, 0)
           a1 == SetA(a0, n_pre, n_post, 1)
       IN  \E log_pr_noA \in Classes, log_pr_A \in Classes :
           LET lw == lnp(log_pr_noA, log_pr_A)
           IN  /\ lastVisit' = [NoLast EXCEPT !.routine = "column", !.n_pre = n_pre,
                                         !.A_init = A[n_pre][n_post],
                                         !.W_init = Wat(W, n_pre, n_post),
                                         !.lnp = <<log_pr_noA, log_pr_A>>]
               /\ \/ /\ log_sum_exp_sample_may_raise(lw)
                     /\ A' = a1
                     /\ rpc' = "raised" /\ err' = "Exception"
                     /\ UNCHANGED visited
                  \/ \E v \in log_sum_exp_sample(lw) :
                     /\ A' = SetA(a1, n_pre, n_post, v)
                     /\ \/ /\ rpc' = "column"
                           /\ visited' = visited \cup {n_pre}
                           /\ UNCHANGED err
                        \/ \* pdb.set_trace(), left with "quit"
                           /\ \/ ~ isfinite(log_pr_noA)
                              \/ ~ isfinite(log_pr_A)
                              \/ (n_pre = n_post /\ v = 0)
                           /\ rpc' = "raised" /\ err' = "BdbQuit"
                           /\ UNCHANGED visited
    /\ writes' = writes \cup {LocA(Cardinality(visited), call.unit), LocFieldA}
    /\ UNCHANGED count
    /\ UNCHANGED <<W, glms, L, step_sz, avg_accept_rate, propose_from_prior, scipy_legacy, bound, call,
                   callsLeft, loc, pre, prevCall>>

\* _sample_column_of_W and the return of update: hmc on x['net']['weights']['W'].
SampleColumnOfW ==
    /\ rpc = "column"
    /\ visited = Units
    /\ \E r \in hmc(W.data, g_mask(call.unit)) :
        /\ W' = [W EXCEPT !.data = r.q]
        /\ step_sz' = Adapted_step_sz(GibbsNetworkColumnUpdate, r)
        /\ avg_accept_rate' = Adapted_avg_accept_rate(GibbsNetworkColumnUpdate, r)
    /\ writes' = writes \cup {LocFieldW, LocStepSz, LocAcceptRate}
    /\ rpc' = "idle"
    /\ UNCHANGED <<lastVisit, count>>
    /\ UNCHANGED <<A, glms, L, propose_from_prior, scipy_legacy, bound, call, callsLeft, visited, loc, err,
                   pre, prevCall>>

(***************************************************************************)
(* LatentDistanceNetworkUpdate                                             *)
(***************************************************************************)
\* self.L_shape, recorded by preprocess from population.sample(): N x D, here D = 2.
L_shape == <<N, 2>>

\* The shape of x['net']['graph']['L'].ravel(), which is what hmc is passed and returns.
L_ravel_shape == <<N * 2>>

\* A write back that stores hmc's flat result as it is.
WriteBackLFlat(l, q) == [l EXCEPT !.val = q[1], !.shape = L_ravel_shape]

\* x['net']['graph']['L'] = L.reshape(self.L_shape)
WriteBackL(l, q) == [l EXCEPT !.val = q[1], !.shape = L_shape]

\* update(x): L is moved by hmc when the graph has latent coordinates.
LatentDistanceNetworkUpdate_update ==
    /\ rpc = "idle"
    /\ call.rule = LatentDistanceNetworkUpdate
    /\ callsLeft > 0
    /\ callsLeft' = callsLeft - 1
    /\ pre' = Snapshot
    /\ UNCHANGED <<lastVisit, count>>
    /\ IF L.present
       THEN /\ \E r \in hmc(<<L.val>>, {1}) :
                /\ L' = WriteBackL(L, r.q)
                /\ step_sz' = Adapted_step_sz(LatentDistanceNetworkUpdate, r)
                /\ avg_accept_rate' = Adapted_avg_accept_rate(LatentDistanceNetworkUpdate, r)
            /\ writes' = {LocL, LocStepSz, LocAcceptRate}
       ELSE /\ UNCHANGED <<L, step_sz, avg_accept_rate>>
            /\ writes' = {}
    /\ UNCHANGED <<A, W, glms, propose_from_prior, scipy_legacy, bound, rpc, call, visited, loc, err, prevCall>>

(***************************************************************************)
(* Specifications                                                          *)
(***************************************************************************)
\* The rule instances as their constructors leave them (thousandths).
NewRules ==
    /\ step_sz = [r \in RuleNames |-> 50]
    /\ avg_accept_rate = [r \in RuleNames |-> 900]

\* While gibbs_sample is followed at the level of slots the concrete state is idle.
RulesOff ==
    /\ A = [i \in Units |-> [k \in Units |-> IF i = k THEN 1 ELSE 0]]
    /\ W = [shape |-> MatrixShape, data |-> [m \in 1 .. (N * N) |-> F(m)]]
    /\ glms = [k \in Units |-> F(k)]
    /\ L = [present |-> TRUE, val |-> F(0), shape |-> L_shape]
    /\ NewRules
    /\ propose_from_prior = FALSE
    /\ scipy_legacy = FALSE
    /\ bound = preprocess(TRUE)
    /\ lastVisit = NoLast
    /\ count = [i \in Units |-> 0]
    /\ rpc = "off"
    /\ call = NoCall
    /\ callsLeft = 0
    /\ visited = {}
    /\ loc = NoLoc
    /\ err = "none"
    /\ pre = Snapshot
    /\ writes = {}
    /\ prevCall = [unit |-> -1, writes |-> {}]

Init == InitSampler /\ RulesOff

Spec == Init /\ [][Next]_vars

\* The states and rule configurations update calls are started from: a binary A
\* (the identity pattern or its complement), a finite W stored as a matrix or
\* flat, and for each rule the options it depends on.
RuleInputs ==
    {[rule |-> HmcGlmUpdate, prior |-> FALSE, shape |-> MatrixShape, latent |-> TRUE,
      refractory |-> TRUE, lshape |-> L_shape, legacy |-> FALSE]}
    \cup {[rule |-> CollapsedGibbsNetworkColumnUpdate, prior |-> b, shape |-> sh,
           latent |-> TRUE, refractory |-> rf, lshape |-> L_shape, legacy |-> lg] :
              b \in BOOLEAN, sh \in {MatrixShape, FlatShape}, rf \in BOOLEAN,
              lg \in BOOLEAN}
    \cup {[rule |-> GibbsNetworkColumnUpdate, prior |-> FALSE, shape |-> sh,
           latent |-> TRUE, refractory |-> TRUE, lshape |-> L_shape, legacy |-> FALSE] :
              sh \in {MatrixShape, FlatShape}}
    \cup {[rule |-> LatentDistanceNetworkUpdate, prior |-> FALSE, shape |-> MatrixShape,
           latent |-> TRUE, refractory |-> TRUE, lshape |-> lsh, legacy |-> FALSE] :
              lsh \in {L_shape, L_ravel_shape}}
    \cup {[rule |-> LatentDistanceNetworkUpdate, prior |-> FALSE, shape |-> MatrixShape,
           latent |-> FALSE, refractory |-> TRUE, lshape |-> L_shape, legacy |-> FALSE]}

InitUpdates(nCalls) ==
    /\ InitSampler
    /\ isLatent = FALSE
    /\ x0 = "given"
    /\ init_from_mle = TRUE
    /\ \E inp \in RuleInputs, diag \in {0, 1} :
        /\ A = [i \in Units |-> [k \in Units |-> IF i = k THEN diag ELSE 1 - diag]]
        /\ W = [shape |-> inp.shape, data |-> [m \in 1 .. (N * N) |-> F(m)]]
        /\ L = [present |-> inp.latent, val |-> F(0), shape |-> inp.lshape]
        /\ propose_from_prior = inp.prior
        /\ scipy_legacy = inp.legacy
        /\ bound = preprocess(inp.refractory)
        /\ call = [rule |-> inp.rule, unit |-> -1]
        /\ pre = [A |-> [i \in Units |-> [k \in Units |-> IF i = k THEN diag ELSE 1 - diag]],
                  W |-> [shape |-> inp.shape, data |-> [m \in 1 .. (N * N) |-> F(m)]],
                  glms |-> [k \in Units |-> F(k)],
                  L |-> [present |-> inp.latent, val |-> F(0), shape |-> inp.lshape]]
    /\ glms = [k \in Units |-> F(k)]
    /\ NewRules
    /\ rpc = "idle"
    /\ callsLeft = nCalls
    /\ visited = {}
    /\ loc = NoLoc
    /\ err = "none"
    /\ writes = {}
    /\ prevCall = [unit |-> -1, writes |-> {}]
    /\ lastVisit = NoLast
    /\ count = [i \in Units |-> 0]

NextRules ==
    \/ (\E j \in Units : HmcGlmUpdate_update(j)) /\ UNCHANGED orchVars
    \/ (\E j \in Units : CollapsedBegin(j)) /\ UNCHANGED orchVars
    \/ (\E n_pre \in Units : CollapsedSampleA(n_pre)) /\ UNCHANGED orchVars
    \/ CollapsedSampleW /\ UNCHANGED orchVars
    \/ (\E n_pre \in Units : CollapsedSampleAWWithPrior(n_pre)) /\ UNCHANGED orchVars
    \/ CollapsedStoreW /\ UNCHANGED orchVars
    \/ CollapsedReturn /\ UNCHANGED orchVars
    \/ (\E j \in Units : ColumnBegin(j)) /\ UNCHANGED orchVars
    \/ SampleColumnOfA /\ UNCHANGED orchVars
    \/ SampleColumnOfW /\ UNCHANGED orchVars
    \/ LatentDistanceNetworkUpdate_update /\ UNCHANGED orchVars

\* One update call of one rule, from every input.
InitRules == InitUpdates(1)

SpecRules == InitRules /\ [][NextRules]_vars

\* Two update calls of one rule instance, for two different units.
InitPair == InitUpdates(2)

SpecPair == InitPair /\ [][NextRules]_vars

\* Two update calls of one instance of an HMC-based rule, for two different units
\* where the rule takes a unit.
NextHmc ==
    \/ (\E j \in Units : HmcGlmUpdate_update(j)) /\ UNCHANGED orchVars
    \/ (\E j \in Units : ColumnBegin(j)) /\ UNCHANGED orchVars
    \/ SampleColumnOfA /\ UNCHANGED orchVars
    \/ SampleColumnOfW /\ UNCHANGED orchVars
    \/ LatentDistanceNetworkUpdate_update /\ UNCHANGED orchVars

InitHmcPair ==
    /\ InitUpdates(2)
    /\ call.rule \in {HmcGlmUpdate, GibbsNetworkColumnUpdate, LatentDistanceNetworkUpdate}

SpecHmcPair == InitHmcPair /\ [][NextHmc]_vars

(***************************************************************************)
(* Properties of gibbs_sample                                              *)
(***************************************************************************)
IsPrefix(a, b) == Len(a) <= Len(b) /\ \A i \in 1 .. Len(a) : a[i] = b[i]

\* The calls one sweep has to issue: rule-major over the parallel rules, each for
\* units 0 .. N-1, then every serial rule once (unit argument -1: none).
ExpectedSweepCalls ==
    LET np == Len(parallel_updates) * N
    IN  [i \in 1 .. (np + Len(serial_updates)) |->
            IF i <= np
            THEN <<parallel_updates[((i - 1) \div N) + 1], (i - 1) % N>>
            ELSE <<serial_updates[i - np], -1>>]

\* C1: within every sweep the update calls are issued in the order "each parallel
\* rule for units 0..N-1, rule after rule, then each serial rule once"; a serial
\* call is made only after all parallel calls of the sweep, and a completed sweep
\* has issued every (rule, unit) pair and every serial rule exactly once.
C1_SweepCallOrder ==
    /\ IsPrefix(calls, ExpectedSweepCalls)
    /\ (pc = "serial") => Len(calls) >= Len(parallel_updates) * N
    /\ (pc \in {"loop", "done"} /\ smpl > 0) => calls = ExpectedSweepCalls
    /\ \A i, j \in 1 .. Len(calls) : calls[i] = calls[j] => i = j

C1_Witness ==
    /\ pc = "done"
    /\ smpl = N_samples
    /\ isLatent
    /\ Len(calls) = 2 * N + 1
    /\ calls[Len(calls)] = <<LatentDistanceNetworkUpdate, -1>>

\* initialize_updates has returned and x_smpls = [x0] has been executed.
Initialized == parallel_updates # <<>>

\* C2: after k completed sweeps the trajectory holds the initial reference and k
\* appended entries; each appended entry is an object of its own (distinct from
\* the live state and from the other entries) whose content is, and stays, the
\* live state as it was at the end of its sweep.
C2_TrajectorySnapshots ==
    /\ Len(endOfSweep) = smpl
    /\ Initialized => Len(x_smpls) = smpl + 1
    /\ ~ Initialized => x_smpls = <<>>
    /\ (pc = "done") => Len(x_smpls) = N_samples + 1
    /\ \A k \in 1 .. smpl :
          /\ x_smpls[k + 1] # x
          /\ \A m \in 1 .. smpl : x_smpls[k + 1] = x_smpls[m + 1] => k = m
          /\ heap[x_smpls[k + 1]] = endOfSweep[k]

C2_Witness ==
    /\ pc = "done"
    /\ Len(x_smpls) = N_samples + 1
    /\ heap[x] # endOfSweep[1]
    /\ heap[x_smpls[2]] = endOfSweep[1]

\* C3: the state an update call operates on contains every write made earlier in
\* the same sweep (by earlier rules and by the same rule on earlier units).
C3_SequentialVisibility ==
    \A w \in writtenAtCall : lastInput[w[1]] = w[2]

C3_Witness ==
    /\ smpl >= 1
    /\ pc = "serial"
    /\ Cardinality(writtenAtCall) >= N + 1
    /\ \A w \in writtenAtCall : lastInput[w[1]] = w[2]

(***************************************************************************)
(* Properties of the update rules                                          *)
(***************************************************************************)
\* The latest update(x, j) call has returned.
Returned(rule) == rpc = "idle" /\ call.rule = rule /\ call.unit \in Units

\* Columns other than column j of A and W are as they were when the call started.
OtherColumnsKept(j) ==
    \A i \in Units, k \in Units \ {j} :
        /\ A[i][k] = pre.A[i][k]
        /\ Wat(W, i, k) = Wat(pre.W, i, k)

\* C4: for every parallel rule and two distinct units n # m, the locations
\* written by update(x, n) and by update(x, m) (state entries, container fields
\* of the state, fields of the rule instance) are disjoint.
C4_DisjointWrites ==
    (rpc = "idle" /\ prevCall.unit \in Units /\ call.unit \in Units)
        => prevCall.writes \cap writes = {}

\* C5: CollapsedGibbsNetworkColumnUpdate.update(x, j), in exact and in
\* propose-from-prior mode, returns with every A[i,k] and W[i,k], k # j, every
\* GLM record and L unchanged; only column j of A and W may differ.
C5_CollapsedColumnFrame ==
    Returned(CollapsedGibbsNetworkColumnUpdate) =>
        /\ OtherColumnsKept(call.unit)
        /\ glms = pre.glms
        /\ L = pre.L

\* A collapsed call that returned having changed both A and W in its column.
C5_Witness ==
    /\ Returned(CollapsedGibbsNetworkColumnUpdate)
    /\ \E i \in Units :
        /\ A[i][call.unit] # pre.A[i][call.unit]
        /\ Wat(W, i, call.unit) # Wat(pre.W, i, call.unit)

\* C6: HmcGlmUpdate.update(x, n) changes only the GLM record of unit n: the
\* records of the other units, A, W and L are the same after the call as before.
C6_HmcGlmFrame ==
    Returned(HmcGlmUpdate) =>
        /\ \A k \in Units \ {call.unit} : glms[k] = pre.glms[k]
        /\ A = pre.A
        /\ W = pre.W
        /\ L = pre.L

\* An accepted proposal: the record of unit n has changed.
C6_Witness ==
    /\ Returned(HmcGlmUpdate)
    /\ glms[call.unit] # pre.glms[call.unit]

\* C7: GibbsNetworkColumnUpdate.update(x, j) resamples only column j: every
\* W[i,k] and A[i,k] with k # j equals its pre-call value, whether the HMC
\* proposal is accepted or rejected.
C7_ColumnUpdateFrame ==
    Returned(GibbsNetworkColumnUpdate) => OtherColumnsKept(call.unit)

\* C8: every update rule preserves shapes: from a state whose W is stored as an
\* N x N matrix, the stored W is still N x N after the update calls.
C8_ShapesPreserved ==
    (call.unit \in Units /\ pre.W.shape = MatrixShape) => W.shape = MatrixShape

\* C9: starting from a binary A, every entry of A is exactly 0 or 1 at the end
\* of each update call (collapsed exact, propose-from-prior, plain column).
C9_AdjacencyBinary ==
    (rpc = "idle" /\ call.unit \in Units) =>
        \A i \in Units, k \in Units : A[i][k] \in {0, 1}

\* A network-column call that returned having set an entry and cleared another.
C9_Witness ==
    /\ rpc = "idle"
    /\ call.unit \in Units
    /\ call.rule \in {CollapsedGibbsNetworkColumnUpdate, GibbsNetworkColumnUpdate}
    /\ \E i \in Units : A[i][call.unit] = 1 /\ pre.A[i][call.unit] = 0
    /\ \E i \in Units : A[i][call.unit] = 0 /\ pre.A[i][call.unit] = 1

\* C10: after update calls from a state with finite W, every entry of W is a
\* finite real number, also when the evaluator returns non-finite
\* log-likelihoods at quadrature nodes.
C10_WeightsFinite ==
    (rpc \in {"idle", "raised"}) => \A m \in 1 .. (N * N) : IsFinite(W.data[m])

(***************************************************************************)
(* Properties of the collapsed update: non-finite likelihoods              *)
(***************************************************************************)
\* The collapsed rule in exact mode, and in propose-from-prior mode.
ExactMode == call.rule = CollapsedGibbsNetworkColumnUpdate /\ ~ propose_from_prior
PriorMode == call.rule = CollapsedGibbsNetworkColumnUpdate /\ propose_from_prior

\* A vector of log-likelihoods with every non-finite entry read as -infinity.
AsMinusInfinity(v) == [k \in DOMAIN v |-> IF isfinite(v[k]) THEN v[k] ELSE "ninf"]

\* C11: in the exact collapsed update a non-finite node log-likelihood (NaN,
\* +infinity, -infinity) counts as -infinity in every later use: log G is the
\* log-sum-exp of the nodes so read, and no NaN reaches the sampled weight.
C11_NonFiniteNodesAsMinusInfinity ==
    /\ (rpc = "sampleW") =>
          loc.log_G = logsumexp(weighted_log_L(AsMinusInfinity(loc.log_L)))
    /\ ExactMode => \A m \in 1 .. (N * N) : W.data[m] # NaN

\* _collapsed_sample_AW_with_prior has run up to its last statement with a
\* proposal that differs from the A[n_pre, n_post] it found.
PriorVisitChanging ==
    /\ rpc = "storeW"
    /\ lastVisit.routine = "prior"
    /\ lastVisit.prop_A # lastVisit.A_init

\* C12: when the likelihood with the edge forced to 0 is non-finite (NaN,
\* +infinity, -infinity), the absence log-weight given to the sampler (exact
\* mode) or used in the acceptance ratio (propose-from-prior mode) is -infinity.
C12_AbsenceWeightMinusInfinity ==
    /\ (rpc = "sampleW" /\ ~ isfinite(loc.log_L0)) => loc.log_pr_noA = "ninf"
    /\ (PriorVisitChanging /\ ~ isfinite(lastVisit.log_lkhd_noA)) =>
          lastVisit.log_pr_accept =
              (IF lastVisit.prop_A = 1 THEN SubC(lastVisit.log_G, "ninf")
               ELSE SubC("ninf", lastVisit.log_G))

\* C13: when log G is non-finite (every node log-likelihood non-finite), or both
\* edge log-weights are, the collapsed update stops with an error: it does not
\* go on to write A[i,j] or W[i,j] and does not move to the next source.
C13_NonFiniteAborts ==
    /\ (rpc = "sampleW") =>
          /\ isfinite(loc.log_G)
          /\ (isfinite(loc.log_pr_noA) \/ isfinite(loc.log_pr_A))
    /\ (lastVisit.routine = "prior" /\ lastVisit.quadrature
            /\ ~ isfinite(lastVisit.log_G)) => rpc = "raised"

(***************************************************************************)
(* Properties of the collapsed update: prior pairs, visits, draws          *)
(***************************************************************************)
\* The latest visit of the running collapsed call is over (its W draw included).
VisitOver ==
    /\ call.rule = CollapsedGibbsNetworkColumnUpdate
    /\ lastVisit.n_pre \in Units
    /\ rpc # "sampleW"

\* W[i, j] of the source i visited last, j the unit of the call.
VisitedW == Wat(W, lastVisit.n_pre, call.unit)

\* Every value a draw for an entry with prior pair pr can store: a prior draw, a
\* support point or node, or the midpoint of two adjacent ones.
DrawsFrom(pr) ==
    {F(pr.mu + pr.sigma * z) : z \in RANDN} \cup
    UNION {{F(fp[b]) : b \in 1 .. Len(fp)} \cup
           {F((fp[b] + fp[b + 1]) \div 2) : b \in 1 .. (Len(fp) - 1)} :
              fp \in {W_centers(pr), W_nns(pr)}}

\* The entry visited last was given a new finite value drawn with the pair of
\* attributes that belongs to it: the refractory attributes on the diagonal.
DrawnWithOwnPair ==
    (VisitOver /\ IsFinite(VisitedW) /\ VisitedW # lastVisit.W_init) =>
        VisitedW \in DrawsFrom(IF lastVisit.n_pre = call.unit
                               THEN [mu |-> bound.mu_w_ref, sigma |-> bound.sigma_w_ref]
                               ELSE [mu |-> bound.mu_w, sigma |-> bound.sigma_w])

\* The pair pr has the values preprocess bound to the refractory attributes.
IsRefractoryPair(pr) == <<pr.mu, pr.sigma>> = <<bound.mu_w_ref, bound.sigma_w_ref>>

\* C14: for every pair (i, j) handled by _collapsed_sample_AW,
\* _collapsed_sample_AW_with_prior and _slice_sample_W, the weight-prior pair
\* used is the refractory pair if and only if i = j and the standard pair
\* otherwise, every redrawn entry holds a value drawn with its pair, and the
\* refractory pair bound by preprocess is a parameter set separate from the
\* standard pair.
C14_RefractoryPairSeparate ==
    /\ DrawnWithOwnPair
    /\ (call.rule = CollapsedGibbsNetworkColumnUpdate /\ rpc = "collapsed") =>
          \A n_pre \in Units :
              /\ IsRefractoryPair(PriorPair(n_pre, call.unit)) <=> (n_pre = call.unit)
              /\ IsRefractoryPair(_slice_sample_W_pair(n_pre, call.unit))
                    <=> (n_pre = call.unit)
    /\ (VisitOver /\ lastVisit.n_pre = call.unit) =>
          <<bound.mu_w_ref, bound.sigma_w_ref>> # <<bound.mu_w, bound.sigma_w>>

\* _collapsed_sample_AW_with_prior has run up to its last statement with a
\* proposal equal to the A[n_pre, n_post] it found.
PriorVisitSame ==
    /\ rpc = "storeW"
    /\ lastVisit.routine = "prior"
    /\ lastVisit.prop_A = lastVisit.A_init

\* C15 as stated: in propose-from-prior mode, whenever the proposal equals the
\* current A[i,j] (both 1 or both 0), A[i,j] is unchanged and W[i,j] is still
\* resampled using the quadrature nodes.
C15_UnchangedProposalRedrawsW ==
    PriorVisitSame =>
        /\ A[lastVisit.n_pre][call.unit] = lastVisit.A_init
        /\ lastVisit.quadrature
        /\ VisitedW # lastVisit.W_init

\* C15, amended: with proposal and current value both 1, A[i,j] is unchanged and
\* W[i,j] is resampled using the quadrature nodes; with both 0, A[i,j] and W[i,j]
\* are both left as they are and no quadrature is run.
C15_UnchangedProposal ==
    PriorVisitSame =>
        /\ A[lastVisit.n_pre][call.unit] = lastVisit.A_init
        /\ lastVisit.A_init = 1 =>
              /\ lastVisit.quadrature
              /\ VisitedW # lastVisit.W_init
              /\ (IsFinite(VisitedW) =>
                    VisitedW \in DrawsFrom(PriorPair(lastVisit.n_pre, call.unit)))
        /\ lastVisit.A_init = 0 =>
              /\ ~ lastVisit.quadrature
              /\ VisitedW = lastVisit.W_init

\* An existing edge proposed again: A kept, W redrawn over the nodes.
C15_Witness ==
    /\ PriorVisitSame
    /\ lastVisit.A_init = 1
    /\ IsFinite(VisitedW)
    /\ VisitedW # lastVisit.W_init

\* C16: one call update(x, j) of the collapsed rule visits every source exactly
\* once, applies one sampling step per visit, and uses the routine selected by
\* propose_from_prior for every visit.
C16_EachSourceOnce ==
    (call.rule = CollapsedGibbsNetworkColumnUpdate) =>
        /\ \A i \in Units : count[i] <= 1
        /\ (rpc = "idle" /\ call.unit \in Units) => \A i \in Units : count[i] = 1
        /\ (lastVisit.routine # "none") =>
              lastVisit.routine = (IF propose_from_prior THEN "prior" ELSE "exact")

\* A returned call whose shuffled order ended with source 0.
C16_Witness ==
    /\ Returned(CollapsedGibbsNetworkColumnUpdate)
    /\ \A i \in Units : count[i] = 1
    /\ lastVisit.n_pre = 0

\* The index the sampler must return when exactly one of the two weights
\* [absent, present] is -infinity and the other one finite.
ForcedIndex(absent, present, a) ==
    /\ (absent = "fin" /\ present = "ninf") => a = 0
    /\ (absent = "ninf" /\ present = "fin") => a = 1

\* C17: the exact collapsed update gives the sampler [logPrior0 + logL0,
\* logPrior1 + logG] in this order and stores the sampled index in A[i,j], so
\* index 0 means edge absent and 1 edge present; the plain column update likewise
\* passes [log p with A = 0, log p with A = 1].
C17_SamplerWeightOrder ==
    /\ (rpc = "sampleW") =>
          /\ loc.log_pr_A = AddC(prior_lp_A(loc.p_A), loc.log_G)
          /\ (~ isnan(AddC(prior_lp_noA(loc.p_A), loc.log_L0))) =>
                loc.log_pr_noA = AddC(prior_lp_noA(loc.p_A), loc.log_L0)
          /\ ForcedIndex(loc.log_pr_noA, loc.log_pr_A, A[loc.n_pre][call.unit])
    /\ (lastVisit.routine = "column" /\ err # "Exception") =>
          ForcedIndex(lastVisit.lnp[1], lastVisit.lnp[2], A[lastVisit.n_pre][call.unit])

\* An absent edge whose absence had weight -infinity: the sampler returned 1.
C17_Witness ==
    /\ rpc = "sampleW"
    /\ loc.log_pr_noA = "ninf" /\ loc.log_pr_A = "fin"
    /\ lastVisit.A_init = 0
    /\ A[loc.n_pre][call.unit] = 1

\* The smallest and the largest entry of a sequence of numbers.
MinOf(fp) == CHOOSE v \in {fp[b] : b \in 1 .. Len(fp)} : \A b \in 1 .. Len(fp) : v <= fp[b]
MaxOf(fp) == CHOOSE v \in {fp[b] : b \in 1 .. Len(fp)} : \A b \in 1 .. Len(fp) : v >= fp[b]

\* The latest visit ran _collapsed_sample_AW up to its assignment of W.
ExactVisitDrewW ==
    /\ lastVisit.routine = "exact"
    /\ rpc # "sampleW"
    /\ err \notin {"BdbQuit", "Exception"}

\* C18: the exact collapsed update rewrites W[i,j] on every visit: with A[i,j]
\* sampled 0 by a prior draw mu + sigma * z with the pair of (i, j), with A[i,j]
\* sampled 1 by an interpolated value between the smallest and the largest
\* support point; the old W[i,j] is never kept.
C18_WeightRewritten ==
    ExactVisitDrewW =>
        LET pr == PriorPair(lastVisit.n_pre, call.unit)
        IN  /\ VisitedW # lastVisit.W_init
            /\ IF A[lastVisit.n_pre][call.unit] = 0
               THEN VisitedW \in {F(pr.mu + pr.sigma * z) : z \in RANDN}
               ELSE /\ IsFinite(VisitedW)
                    /\ MinOf(W_centers(pr)) <= VisitedW[2]
                    /\ VisitedW[2] <= MaxOf(W_centers(pr))

\* C19: in propose-from-prior mode, a proposal that differs from the current
\* A[i,j] is accepted with log-probability log G - log L0 if it is 1 and
\* log L0 - log G if it is 0, with no prior term; a rejection leaves A[i,j] and
\* W[i,j] at their values before the visit, and an accepted move to 0 leaves
\* W[i,j] at its value before the visit.
C19_MetropolisMove ==
    PriorVisitChanging =>
        LET d == lastVisit
            ratio == IF d.prop_A = 1 THEN SubC(d.log_G, d.log_lkhd_noA)
                                     ELSE SubC(d.log_lkhd_noA, d.log_G)
            A_now == A[d.n_pre][call.unit]
        IN  /\ d.log_pr_accept = ratio
            /\ d.accepted => ratio \in {"fin", "pinf"}
            /\ ~ d.accepted => ratio # "pinf"
            /\ ~ d.accepted => A_now = d.A_init /\ VisitedW = d.W_init
            /\ d.accepted => A_now = d.prop_A
            /\ (d.accepted /\ d.prop_A = 0) => VisitedW = d.W_init

\* The first source of a call moved an edge with a non-zero weight to 0, by a
\* finite acceptance log-probability.
C19_Witness ==
    /\ PriorVisitChanging
    /\ lastVisit.accepted
    /\ lastVisit.prop_A = 0
    /\ lastVisit.log_pr_accept = "fin"
    /\ lastVisit.W_init # F(0)
    /\ A[lastVisit.n_pre][call.unit] = 0

\* a <= b as far as the classes of two floats decide it: never with a NaN, and
\* two finite values are not told apart.
ClassLeq(a, b) ==
    /\ ~ isnan(a)
    /\ ~ isnan(b)
    /\ a = "ninf" \/ b = "pinf" \/ a = b

\* The exact update has sampled A[i,j] = 1 and is about to build the piecewise
\* density of W[i,j] from the node log-likelihoods it holds.
BuildsDensity ==
    /\ ExactMode
    /\ rpc = "sampleW"
    /\ A[loc.n_pre][call.unit] = 1

\* C20: the support points of the piecewise weight density (lower tail point, the
\* K-1 midpoints of adjacent nodes, upper tail point) are strictly increasing, the
\* two tail points lie beyond the outermost quadrature nodes, and the log-CDF has
\* the same length K+1, is non-decreasing, starts at -infinity and ends at 0.
C20_SupportPointsIncreasing ==
    BuildsDensity =>
        LET K == DEG_GAUSS_HERMITE
            pr == PriorPair(loc.n_pre, call.unit)
            xs == W_nns(pr)
            fp == W_centers(pr)
            cdf == log_F_W(loc.log_L)
        IN  /\ Len(fp) = K + 1
            /\ \A k \in 1 .. K : fp[k] < fp[k + 1]
            /\ fp[1] < xs[1]
            /\ fp[K + 1] > xs[K]
            /\ Len(cdf) = K + 1
            /\ \A k \in 1 .. K : ClassLeq(cdf[k], cdf[k + 1])
            /\ cdf[1] = "ninf"
            /\ cdf[K + 1] = "fin"

(***************************************************************************)
(* Properties of the rule instances and of the driver's set-up             *)
(***************************************************************************)
\* The HMC-based rules.
HmcRules == {HmcGlmUpdate, GibbsNetworkColumnUpdate, LatentDistanceNetworkUpdate}

\* The step size and the acceptance estimate a rule instance holds: what its next
\* hmc call is passed.
Controller(rule) == <<step_sz[rule], avg_accept_rate[rule]>>

\* What hmc returns for the controller c it was passed.
HmcReturns(c) ==
    {<<hmc_step_sz(c[1], c[2], b), hmc_avg_accept_rate(c[2], b)>> : b \in BOOLEAN}

\* A step of rule that calls hmc and stores what it returned.
HmcStep(rule) ==
    /\ call'.rule = rule
    /\ <<step_sz'[rule], avg_accept_rate'[rule]>> \in HmcReturns(Controller(rule))

\* C21: every HMC-based rule starts with step size 0.05 and acceptance estimate
\* 0.9, and the pair its k-th hmc call is passed is the pair its (k-1)-th hmc call
\* returned, whichever units the two calls were for: the pair a rule holds changes
\* only by an hmc call of that rule, which is passed the held pair and whose
\* returned pair is held from then on.
C21_SharedStepSizeController ==
    /\ \A rule \in HmcRules : Controller(rule) = <<50, 900>>
    /\ [][\A rule \in HmcRules :
            \/ UNCHANGED <<step_sz[rule], avg_accept_rate[rule]>>
            \/ HmcStep(rule)]_vars

\* The second hmc call of one HmcGlmUpdate instance, for another unit than the
\* first, has returned after two accepted proposals.
C21_Witness ==
    /\ Returned(HmcGlmUpdate)
    /\ callsLeft = 0
    /\ prevCall.unit \in Units
    /\ prevCall.unit # call.unit
    /\ Controller(HmcGlmUpdate) \in HmcReturns(<<55, 910>>)

\* The rules of the two groups.
GroupRules ==
    {parallel_updates[i] : i \in 1 .. Len(parallel_updates)} \cup
    {serial_updates[i] : i \in 1 .. Len(serial_updates)}

\* C22: initialize_updates returns the parallel group [HmcGlmUpdate,
\* CollapsedGibbsNetworkColumnUpdate], in that order, and a serial group that holds
\* a LatentDistanceNetworkUpdate exactly when the graph model is a latent-distance
\* model; before the first update call of gibbs_sample, preprocess has been
\* called exactly once on every rule, and it is never called again.
C22_InitializeUpdates ==
    /\ ~ Initialized =>
        /\ clock = 0
        /\ \A rule \in DOMAIN preprocessed : preprocessed[rule] = 0
    /\ Initialized =>
        /\ parallel_updates = <<HmcGlmUpdate, CollapsedGibbsNetworkColumnUpdate>>
        /\ isLatent <=> LatentDistanceNetworkUpdate \in GroupRules
        /\ Len(serial_updates) <= 1
        /\ \A rule \in GroupRules : preprocessed[rule] = 1
        /\ \A rule \in DOMAIN preprocessed \ GroupRules : preprocessed[rule] = 0

\* The first sweep of a latent-distance population has made its serial call.
C22_Witness ==
    /\ isLatent
    /\ clock > 0
    /\ calls # <<>>
    /\ calls[Len(calls)][1] = LatentDistanceNetworkUpdate

\* The latest LatentDistanceNetworkUpdate.update(x) call has returned.
LatentReturned ==
    /\ call.rule = LatentDistanceNetworkUpdate
    /\ rpc = "idle"
    /\ callsLeft = 0

\* C23: LatentDistanceNetworkUpdate.update(x) changes nothing but L: A, W and all
\* GLM records are as before the call and L has the shape recorded at
\* preprocess; when the state has no L, the state is returned unchanged and the
\* rule's step size and acceptance estimate are left as they were.
C23_LatentUpdateFrame ==
    LatentReturned =>
        /\ A = pre.A
        /\ W = pre.W
        /\ glms = pre.glms
        /\ L.present = pre.L.present
        /\ L.present => L.shape = L_shape
        /\ ~ L.present =>
            /\ L = pre.L
            /\ writes = {}
            /\ Controller(LatentDistanceNetworkUpdate) = <<50, 900>>

\* An accepted proposal moved L, which the caller had passed flattened.
C23_Witness ==
    /\ LatentReturned
    /\ L.present
    /\ L.val # pre.L.val
    /\ pre.L.shape = L_ravel_shape

\* C24: entry 0 of the trajectory holds the initial state of the chain as it was
\* before the first sweep: the in-place mutations of the sweeps never alter it,
\* and after at least one sweep it is an object distinct from the live state.
C24_InitialSampleKept ==
    x_smpls # <<>> =>
        /\ heap[x_smpls[1]] = InitialState
        /\ smpl >= 1 => x_smpls[1] # x

\* The candidate weights the likelihood is evaluated at for entry (n_pre, n_post):
\* the quadrature nodes of the prior pair of the entry.
CandidateWeights(n_pre, n_post) ==
    {W_nns(PriorPair(n_pre, n_post))[m] : m \in 1 .. DEG_GAUSS_HERMITE}

\* The first visit of an exact collapsed call stopped right after its quadrature
\* loop, that is after DEG_GAUSS_HERMITE calls of _glm_ll_A and nothing else.
StoppedAfterQuadrature ==
    /\ ExactMode
    /\ rpc = "raised"
    /\ err = "BdbQuit"
    /\ lastVisit.raised_at = LINE_PDB_LOG_G
    /\ visited = {}

\* C25: _glm_ll_A and _glm_ll_noA are observationally pure on normal return: they
\* force A[n_pre, n_post] (and _glm_ll_A also W[n_pre, n_post]) only for the
\* evaluation, and on return every entry of A and W has its value of before the
\* call, for either value of A[n_pre, n_post] and every candidate weight w: so it
\* is in every state a visit can start from, for every source still to visit.
C25_LikelihoodHelpersPure ==
    /\ (call.rule = CollapsedGibbsNetworkColumnUpdate /\ rpc = "collapsed") =>
        \A n_pre \in order_left :
            /\ _glm_ll_noA(A, n_pre, call.unit) = A
            /\ \A wv \in CandidateWeights(n_pre, call.unit) :
                _glm_ll_A(A, W, n_pre, call.unit, wv) = [A |-> A, W |-> W]
    /\ StoppedAfterQuadrature => A = pre.A /\ W = pre.W

\* The quadrature loop has run on an entry with A = 0 and then the call stopped.
C25_Witness ==
    /\ StoppedAfterQuadrature
    /\ lastVisit.A_init = 0
    /\ lastVisit.n_pre \in Units
    /\ W.shape = FlatShape

====
